---- MODULE Spec2Model ----
(***************************************************************************)
(* A model of build_spcialist_lexicon.py: the TokenDictionary interner,    *)
(* the AustinSimpleParser phrase trie (build_trie and the tag merge) and   *)
(* the recursive matcher behind parse_words.                               *)
(*                                                                         *)
(* Texts are sequences of characters; a token is a sequence of characters; *)
(* a span is the character sequence ' '.join builds.  Python indices are   *)
(* 0-based and kept so: tokens[idx] of the source is tokens[idx + 1] here. *)
(* Trie nodes live in an arena, nodes[1] being the root object and         *)
(* nodes[n] the n-th AustinSimpleParser constructed.                       *)
(***************************************************************************)
EXTENDS Integers, Sequences, FiniteSets

VARIABLES
    token_dict,   \* the TokenDictionary shared by all nodes: [map, dic_list, next_index]
    nodes,        \* arena of AustinSimpleParser objects: [parent, children_tries, tags]
    pc,           \* where the running parse_words call is
    self,         \* the node whose method is executing
    start_idx,    \* _get_tries' start_idx
    idx,          \* the idx argument of the executing method
    tokens,       \* the token list parse_words built
    out,          \* the (span, tags) pairs produced so far, in order
    depth,        \* Python frames in use by the running call
    phrases,      \* history: the normalized phrases passed to build_trie
    folded,       \* history: per phrase, the fold of the tag mappings supplied
    seen,         \* history: the distinct tokens given to the interner, in order
    built,        \* history: <<phrase>> if the last call was build_trie, else <<>>
    prior         \* history: <<result>> of the parse this one repeats, else <<>>

vars == <<token_dict, nodes, pc, self, start_idx, idx, tokens, out, depth,
          phrases, folded, seen, built, prior>>

-----------------------------------------------------------------------------
(* Bounds of the model *)

\* words in a parsed text
MaxWords == 3
\* tokens in one add_tokens call
MaxAdd == 2
\* tokens of the long texts of SpecDeep beyond the recursion limit
DeepSlack == 2

-----------------------------------------------------------------------------
(* Python values *)

\* None, where the source uses it as a tag value (a string like the values)
None == "None"
\* None, where dict.get returns it in place of an integer id
NoId == 0 - 1
\* sys.getrecursionlimit() of CPython, which bounds the depth of the
\* recursive calls of _parse_tokens and _get_tries
RecursionLimit == 1000

Whitespace == {" ", "\t"}
RawWords == {<<"a">>, <<"B">>}
Keys == {"k1", "k2"}
Values == {"x", "y"}

\* str.lower on one character
LowerChar(c) == IF c = "A" THEN "a" ELSE IF c = "B" THEN "b" ELSE c

\* str.lower
lower(s) == [i \in 1..Len(s) |-> LowerChar(s[i])]

\* str.split(): the maximal runs of non-whitespace characters, in order.
\* A token starts at i when s[i] is no whitespace and s[i - 1], if any, is;
\* it ends before the next whitespace or at the end of s.
IsStart(s, i) == s[i] \notin Whitespace /\ (i = 1 \/ s[i - 1] \in Whitespace)

TokenAt(s, i) ==
    LET last == CHOOSE j \in i..Len(s) :
                    /\ \A k \in i..j : s[k] \notin Whitespace
                    /\ (j = Len(s) \/ s[j + 1] \in Whitespace)
    IN  SubSeq(s, i, last)

\* the tokens that start at the positions lo..hi of s, in order
RECURSIVE SplitRange(_, _, _)
SplitRange(s, lo, hi) ==
    IF lo > hi THEN <<>>
    ELSE IF lo = hi THEN (IF IsStart(s, lo) THEN <<TokenAt(s, lo)>> ELSE <<>>)
    ELSE LET mid == (lo + hi) \div 2
         IN  SplitRange(s, lo, mid) \o SplitRange(s, mid + 1, hi)

split(s) == SplitRange(s, 1, Len(s))

\* [token.lower() for token in words.split()]
Normalize(words) == LET ts == split(words) IN [i \in 1..Len(ts) |-> lower(ts[i])]

\* ' '.join(ts)
RECURSIVE join(_)
join(ts) ==
    IF ts = <<>> THEN <<>>
    ELSE IF Len(ts) = 1 THEN ts[1]
    ELSE ts[1] \o <<" ">> \o join(Tail(ts))

\* a slice that stops one element early
SliceShort(ts, a, b) ==
    LET hi == IF b - 1 > Len(ts) THEN Len(ts) ELSE b - 1
    IN  IF a >= hi THEN <<>> ELSE [i \in 1..(hi - a) |-> ts[a + i]]

\* the Python slice ts[a:b], 0-based and clipped as Python clips it
Slice(ts, a, b) ==
    LET hi == IF b > Len(ts) THEN Len(ts) ELSE b
    IN  IF a >= hi THEN <<>> ELSE [i \in 1..(hi - a) |-> ts[a + i]]

-----------------------------------------------------------------------------
(* Inputs *)

RECURSIVE SeqsUpTo(_, _)
SeqsUpTo(S, n) ==
    IF n = 0 THEN {<<>>}
    ELSE LET shorter == SeqsUpTo(S, n - 1)
         IN  shorter \cup {Append(q, x) : q \in {r \in shorter : Len(r) = n - 1}, x \in S}

\* a text with single spaces between its words
Plain(ws) == join(ws)

\* the same words behind leading whitespace, apart by runs of whitespace,
\* with trailing whitespace
RECURSIVE Padded(_)
Padded(ws) ==
    IF ws = <<>> THEN <<" ">>
    ELSE <<" ">> \o Head(ws) \o <<"\t">> \o Padded(Tail(ws))

\* the texts that word sequences are written as
Renderings(W) == {Plain(ws) : ws \in W} \cup {Padded(ws) : ws \in W}

\* the texts parsed
Texts == Renderings(SeqsUpTo(RawWords, MaxWords))

\* the phrases of the lexicon, as their words are written, and the texts
\* handed to build_trie for them
LexiconWords == {<<>>, <<<<"a">>>>, <<<<"b">>>>, <<<<"a">>, <<"B">>>>}
Lexicon == Renderings(LexiconWords)

\* a phrase, its prefixes and nothing else
ChainWords == {<<>>, <<<<"A">>>>, <<<<"a">>, <<"b">>>>}
ChainLexicon == Renderings(ChainWords)

\* a dict of tags: keys to values or None
TagDicts == UNION {[D -> Values \cup {None}] : D \in SUBSET Keys}

\* the tags argument of build_trie: None (<<>>) or a dict (<<d>>)
TagArgs == {<<>>} \cup {<<d>> : d \in TagDicts}

\* the tags arguments that mention no key but k1
OneKeyTagArgs == {t \in TagArgs : t = <<>> \/ DOMAIN t[1] = {"k1"}}

-----------------------------------------------------------------------------
(* TokenDictionary *)

\* TokenDictionary.__init__
TokenDictionary == [map |-> <<>>, dic_list |-> <<>>, next_index |-> 0]

\* a __setitem__ without its test of "token in self"
SetItemUnchecked(td, token) ==
    [map        |-> [t \in DOMAIN td.map \cup {token} |->
                        IF t = token THEN td.next_index ELSE td.map[t]],
     dic_list   |-> Append(td.dic_list, token),
     next_index |-> td.next_index + 1]

\* TokenDictionary.__setitem__(token, value): value is never looked at
__setitem__(td, token) ==
    IF token \in DOMAIN td.map
    THEN td
    ELSE [map        |-> [t \in DOMAIN td.map \cup {token} |->
                             IF t = token THEN td.next_index ELSE td.map[t]],
          dic_list   |-> Append(td.dic_list, token),
          next_index |-> td.next_index + 1]

\* TokenDictionary.add_tokens
RECURSIVE add_tokens(_, _)
add_tokens(td, toks) ==
    IF toks = <<>> THEN td
    ELSE add_tokens(__setitem__(td, Head(toks)), Tail(toks))

\* TokenDictionary.get_or_add_token_dic: the dictionary afterwards and the id returned
get_or_add_token_dic(td, token) ==
    LET after == IF token \notin DOMAIN td.map THEN __setitem__(td, token) ELSE td
    IN  [td |-> after, id |-> after.map[token]]

\* a lookup that interns the token it is asked for
GetInterning(td, token) ==
    LET after == IF token \in DOMAIN td.map
                 THEN td
                 ELSE [map        |-> [t \in DOMAIN td.map \cup {token} |->
                                          IF t = token THEN td.next_index ELSE td.map[t]],
                       dic_list   |-> Append(td.dic_list, token),
                       next_index |-> td.next_index + 1]
    IN  [td |-> after, id |-> after.map[token]]

\* dict.get(token, None): the dictionary afterwards (as it was) and the id or None
get(td, token) ==
    [td |-> td, id |-> IF token \in DOMAIN td.map THEN td.map[token] ELSE NoId]

-----------------------------------------------------------------------------
(* AustinSimpleParser: the trie *)

\* AustinSimpleParser.__init__(parent): the object constructed
AustinSimpleParser(parent) == [parent |-> parent, children_tries |-> <<>>, tags |-> <<>>]

\* AustinSimpleParser._get_top, and the frames its recursion takes
RECURSIVE _get_top(_, _)
_get_top(ns, n) == IF ns[n].parent = 0 THEN n ELSE _get_top(ns, ns[n].parent)

RECURSIVE GetTopFrames(_, _)
GetTopFrames(ns, n) == IF ns[n].parent = 0 THEN 1 ELSE 1 + GetTopFrames(ns, ns[n].parent)

\* an _add_next_token that constructs a child whether or not there is one
AddNextTokenAlwaysNew(st, n, next_token) ==
    LET r      == get_or_add_token_dic(st.token_dict, next_token)
        kids   == st.nodes[n].children_tries
        fresh  == Len(st.nodes) + 1
    IN  [nodes |-> Append([st.nodes EXCEPT ![n].children_tries =
                              [i \in DOMAIN kids \cup {r.id} |->
                                  IF i = r.id THEN fresh ELSE kids[i]]],
                          AustinSimpleParser(n)),
         token_dict |-> r.td,
         child |-> fresh]

\* AustinSimpleParser._add_next_token on node n: the state afterwards and the child
_add_next_token(st, n, next_token) ==
    LET r      == get_or_add_token_dic(st.token_dict, next_token)
        kids   == st.nodes[n].children_tries
        fresh  == Len(st.nodes) + 1
    IN  IF r.id \notin DOMAIN kids
        THEN [nodes |-> Append([st.nodes EXCEPT ![n].children_tries =
                                   [i \in DOMAIN kids \cup {r.id} |->
                                       IF i = r.id THEN fresh ELSE kids[i]]],
                               AustinSimpleParser(n)),
              token_dict |-> r.td,
              child |-> fresh]
        ELSE [nodes |-> st.nodes, token_dict |-> r.td, child |-> kids[r.id]]

\* a pass that stores None like any value
UpdateTagStoresNone(tags, key, value) ==
    [k \in DOMAIN tags \cup {key} |-> IF k = key THEN value ELSE tags[k]]

\* one pass of the loop of _update_tags, for the pair (key, value)
UpdateTag(tags, key, value) ==
    IF value = None
    THEN IF key \in DOMAIN tags
         THEN [k \in DOMAIN tags \ {key} |-> tags[k]]
         ELSE tags
    ELSE [k \in DOMAIN tags \cup {key} |-> IF k = key THEN value ELSE tags[k]]

\* AustinSimpleParser._update_tags: the loop over new_tags.items(), in the
\* order the dict yields them
RECURSIVE UpdateItems(_, _, _)
UpdateItems(tags, new_tags, todo) ==
    IF todo = {} THEN tags
    ELSE LET key == CHOOSE k \in todo : TRUE
         IN  UpdateItems(UpdateTag(tags, key, new_tags[key]), new_tags, todo \ {key})

_update_tags(tags, new_tags) == UpdateItems(tags, new_tags, DOMAIN new_tags)

\* an _add_next_tokens that merges the tags into every node on the way
RECURSIVE AddNextTokensTagsPath(_, _, _, _)
AddNextTokensTagsPath(st, n, toks, tags) ==
    LET given  == IF tags = <<>> THEN <<>> ELSE tags[1]
        tagged == [st.nodes EXCEPT ![n].tags = _update_tags(@, given)]
    IN  IF Len(toks) > 0
        THEN LET r == _add_next_token([nodes |-> tagged, token_dict |-> st.token_dict],
                                      n, Head(toks))
             IN  AddNextTokensTagsPath([nodes |-> r.nodes, token_dict |-> r.token_dict],
                                       r.child, Tail(toks), tags)
        ELSE [nodes |-> tagged, token_dict |-> st.token_dict]

\* AustinSimpleParser._add_next_tokens on node n; tags is <<>> for None
RECURSIVE _add_next_tokens(_, _, _, _)
_add_next_tokens(st, n, toks, tags) ==
    IF Len(toks) > 0
    THEN LET r == _add_next_token(st, n, Head(toks))
         IN  _add_next_tokens([nodes |-> r.nodes, token_dict |-> r.token_dict],
                              r.child, Tail(toks), tags)
    ELSE LET given == IF tags = <<>> THEN <<>> ELSE tags[1]
         IN  [nodes |-> [st.nodes EXCEPT ![n].tags = _update_tags(@, given)],
              token_dict |-> st.token_dict]

-----------------------------------------------------------------------------
(* The state after specialist_lexicon = AustinSimpleParser() *)

Init ==
    /\ token_dict = TokenDictionary
    /\ nodes = <<AustinSimpleParser(0)>>
    /\ pc = "idle"
    /\ self = 1
    /\ start_idx = 0
    /\ idx = 0
    /\ tokens = <<>>
    /\ out = <<>>
    /\ depth = 1
    /\ phrases = {}
    /\ folded = <<>>
    /\ seen = <<>>
    /\ built = <<>>
    /\ prior = <<>>

\* no parse_words call is running: the caller's frame is the only one
Returned == pc \in {"idle", "done", "RecursionError"}

\* the caller goes on to something else and drops what the last parse left
NoCall ==
    /\ pc' = "idle"
    /\ self' = 1
    /\ start_idx' = 0
    /\ idx' = 0
    /\ tokens' = <<>>
    /\ out' = <<>>
    /\ depth' = 1
    /\ prior' = <<>>

\* the tokens of toks not met before, in the order they are first met
RECURSIVE FirstSeen(_, _)
FirstSeen(s, toks) ==
    IF toks = <<>> THEN s
    ELSE FirstSeen(IF \E i \in 1..Len(s) : s[i] = Head(toks) THEN s ELSE Append(s, Head(toks)),
                   Tail(toks))

-----------------------------------------------------------------------------
(* Calls on specialist_lexicon.token_dict *)

\* the tokens handed to the interner directly
DirectTokens == {<<"a">>, <<"c">>}

\* token_dict.add_tokens(toks)
AddTokens(toks) ==
    /\ Returned
    /\ token_dict' = add_tokens(token_dict, toks)
    /\ seen' = FirstSeen(seen, toks)
    /\ built' = <<>>
    /\ NoCall
    /\ UNCHANGED <<nodes, phrases, folded>>

\* token_dict.get_or_add_token_dic(token)
GetOrAddTokenDic(token) ==
    /\ Returned
    /\ token_dict' = get_or_add_token_dic(token_dict, token).td
    /\ seen' = FirstSeen(seen, <<token>>)
    /\ built' = <<>>
    /\ NoCall
    /\ UNCHANGED <<nodes, phrases, folded>>

\* token_dict[token] = value
SetItem(token, value) ==
    /\ Returned
    /\ token_dict' = __setitem__(token_dict, token)
    /\ seen' = FirstSeen(seen, <<token>>)
    /\ built' = <<>>
    /\ NoCall
    /\ UNCHANGED <<nodes, phrases, folded>>

-----------------------------------------------------------------------------
(* build_trie *)

\* the tag merge as the specification words it, key by key: a key the call
\* gives None is absent, a key it gives a value has that value, any other
\* key is as it was
MergeLaw(old, given) ==
    LET gone == {k \in DOMAIN given : given[k] = None}
        set  == {k \in DOMAIN given : given[k] # None}
    IN  [k \in (DOMAIN old \ gone) \cup set |-> IF k \in set THEN given[k] ELSE old[k]]

\* specialist_lexicon.build_trie(words, tags).  The recursion of
\* _add_next_tokens is one frame a token; the phrases here are far shorter
\* than the recursion limit.
build_trie(words, tags) ==
    /\ Returned
    /\ LET toks  == Normalize(words)
           r     == _add_next_tokens([nodes |-> nodes, token_dict |-> token_dict],
                                     1, toks, tags)
           given == IF tags = <<>> THEN <<>> ELSE tags[1]
           was   == IF toks \in phrases THEN folded[toks] ELSE <<>>
       IN  /\ nodes' = r.nodes
           /\ token_dict' = r.token_dict
           /\ phrases' = phrases \cup {toks}
           /\ folded' = [p \in phrases \cup {toks} |->
                            IF p = toks THEN MergeLaw(was, given) ELSE folded[p]]
           /\ seen' = FirstSeen(seen, toks)
           /\ built' = <<toks>>
    /\ NoCall

-----------------------------------------------------------------------------
(* parse_words, one call of its recursion at a time.  Every recursive call  *)
(* of the source is the last thing its caller does but for prepending what  *)
(* the caller produced, so the pairs come out in the order they are         *)
(* appended to out, and out is the list returned once pc = "done".          *)

\* a call that takes the stack to d frames: it runs, or raises RecursionError
Call(d, target) == IF d > RecursionLimit THEN "RecursionError" ELSE target

\* specialist_lexicon.parse_words(words), called from the module's top
\* level (frame 1), up to its call of _parse_tokens (frame 3)
parse_words(words) ==
    /\ Returned
    /\ tokens' = Normalize(words)
    /\ pc' = "_parse_tokens"
    /\ self' = 1
    /\ start_idx' = 0
    /\ idx' = 0
    /\ out' = <<>>
    /\ depth' = 3
    /\ built' = <<>>
    /\ prior' = IF pc = "done" /\ tokens = Normalize(words) THEN <<out>> ELSE <<>>
    /\ UNCHANGED <<token_dict, nodes, phrases, folded, seen>>

\* a _parse_tokens that gives an unmatched token the tags of its node
ParseTokensSelfTags ==
    /\ pc = "_parse_tokens"
    /\ IF idx >= Len(tokens)
       THEN /\ pc' = "done"
            /\ depth' = 1
            /\ UNCHANGED <<token_dict, self, start_idx, idx, out>>
       ELSE LET r == get(token_dict, tokens[idx + 1])
            IN  /\ token_dict' = r.td
                /\ IF r.id \in DOMAIN nodes[self].children_tries
                   THEN /\ pc' = Call(depth + 1, "_get_tries")
                        /\ self' = nodes[self].children_tries[r.id]
                        /\ start_idx' = idx
                        /\ idx' = idx + 1
                        /\ depth' = depth + 1
                        /\ out' = out
                   ELSE /\ out' = Append(out, [span |-> tokens[idx + 1],
                                               tags |-> nodes[self].tags])
                        /\ pc' = Call(depth + GetTopFrames(nodes, self), "_parse_tokens")
                        /\ self' = _get_top(nodes, self)
                        /\ idx' = idx + 1
                        /\ depth' = depth + 1
                        /\ UNCHANGED start_idx
    /\ UNCHANGED <<nodes, tokens, phrases, folded, seen, built, prior>>

\* the body of _parse_tokens on node self
_parse_tokens ==
    /\ pc = "_parse_tokens"
    /\ IF idx >= Len(tokens)
       THEN /\ pc' = "done"
            /\ depth' = 1
            /\ UNCHANGED <<token_dict, self, start_idx, idx, out>>
       ELSE LET r == get(token_dict, tokens[idx + 1])
            IN  /\ token_dict' = r.td
                /\ IF r.id \in DOMAIN nodes[self].children_tries
                   THEN /\ pc' = Call(depth + 1, "_get_tries")
                        /\ self' = nodes[self].children_tries[r.id]
                        /\ start_idx' = idx
                        /\ idx' = idx + 1
                        /\ depth' = depth + 1
                        /\ out' = out
                   ELSE /\ out' = Append(out, [span |-> tokens[idx + 1], tags |-> <<>>])
                        /\ pc' = Call(depth + GetTopFrames(nodes, self), "_parse_tokens")
                        /\ self' = _get_top(nodes, self)
                        /\ idx' = idx + 1
                        /\ depth' = depth + 1
                        /\ UNCHANGED start_idx
    /\ UNCHANGED <<nodes, tokens, phrases, folded, seen, built, prior>>

\* a _get_tries that stops at the first node that holds tags
GetTriesFirstTagged ==
    /\ pc = "_get_tries"
    /\ IF idx >= Len(tokens)
       THEN /\ out' = Append(out, [span |-> join(Slice(tokens, start_idx, Len(tokens))),
                                   tags |-> nodes[self].tags])
            /\ pc' = "done"
            /\ depth' = 1
            /\ UNCHANGED <<token_dict, self, start_idx, idx>>
       ELSE LET r == get(token_dict, tokens[idx + 1])
            IN  /\ token_dict' = r.td
                /\ IF /\ r.id \in DOMAIN nodes[self].children_tries
                      /\ nodes[self].tags = <<>>
                   THEN /\ pc' = Call(depth + 1, "_get_tries")
                        /\ self' = nodes[self].children_tries[r.id]
                        /\ idx' = idx + 1
                        /\ depth' = depth + 1
                        /\ UNCHANGED <<start_idx, out>>
                   ELSE /\ out' = Append(out, [span |-> join(Slice(tokens, start_idx, idx)),
                                               tags |-> nodes[self].tags])
                        /\ pc' = Call(depth + 1, "_parse_tokens")
                        /\ depth' = depth + 1
                        /\ UNCHANGED <<self, start_idx, idx>>
    /\ UNCHANGED <<nodes, tokens, phrases, folded, seen, built, prior>>

\* the body of _get_tries on node self
_get_tries ==
    /\ pc = "_get_tries"
    /\ IF idx >= Len(tokens)
       THEN /\ out' = Append(out, [span |-> join(Slice(tokens, start_idx, Len(tokens))),
                                   tags |-> nodes[self].tags])
            /\ pc' = "done"
            /\ depth' = 1
            /\ UNCHANGED <<token_dict, self, start_idx, idx>>
       ELSE LET r == get(token_dict, tokens[idx + 1])
            IN  /\ token_dict' = r.td
                /\ IF r.id \in DOMAIN nodes[self].children_tries
                   THEN /\ pc' = Call(depth + 1, "_get_tries")
                        /\ self' = nodes[self].children_tries[r.id]
                        /\ idx' = idx + 1
                        /\ depth' = depth + 1
                        /\ UNCHANGED <<start_idx, out>>
                   ELSE /\ out' = Append(out, [span |-> join(Slice(tokens, start_idx, idx)),
                                               tags |-> nodes[self].tags])
                        /\ pc' = Call(depth + 1, "_parse_tokens")
                        /\ depth' = depth + 1
                        /\ UNCHANGED <<self, start_idx, idx>>
    /\ UNCHANGED <<nodes, tokens, phrases, folded, seen, built, prior>>

-----------------------------------------------------------------------------
(* Specifications *)

\* building the lexicon and parsing texts against it
Next ==
    \/ \E words \in Lexicon, tags \in OneKeyTagArgs : build_trie(words, tags)
    \/ \E words \in Texts : parse_words(words)
    \/ _parse_tokens
    \/ _get_tries

Spec == Init /\ [][Next]_vars

\* the build phase alone, with every tags argument and with the calls a
\* caller may make on the interner itself
NextTrie ==
    \/ \E words \in ChainLexicon, tags \in TagArgs : build_trie(words, tags)
    \/ \E toks \in SeqsUpTo(DirectTokens, MaxAdd) : AddTokens(toks)
    \/ \E token \in DirectTokens : GetOrAddTokenDic(token)
    \/ \E token \in DirectTokens, value \in {TRUE} : SetItem(token, value)

SpecTrie == Init /\ [][NextTrie]_vars

\* texts of n words "a", n about the recursion limit
Repeat(n) == [i \in 1..(2 * n - 1) |-> IF i % 2 = 1 THEN "a" ELSE " "]
DeepTexts == {Repeat(RecursionLimit - 3), Repeat(RecursionLimit - 3 + DeepSlack)}

\* parsing long texts, against the empty trie and the trie of the phrase "a"
NextDeep ==
    \/ \E tags \in {<<>>} : build_trie(<<"a">>, tags)
    \/ \E words \in DeepTexts : parse_words(words)
    \/ _parse_tokens
    \/ _get_tries

SpecDeep == Init /\ [][NextDeep]_vars

-----------------------------------------------------------------------------
(* Reading the trie *)

Range(q) == {q[i] : i \in 1..Len(q)}

\* the node the tokens toks lead to from node n in the trie (ns, td); 0 if
\* some token is unknown or no child edge
RECURSIVE WalkIn(_, _, _, _)
WalkIn(ns, td, n, toks) ==
    IF toks = <<>> THEN n
    ELSE IF /\ Head(toks) \in DOMAIN td.map
            /\ td.map[Head(toks)] \in DOMAIN ns[n].children_tries
         THEN WalkIn(ns, td, ns[n].children_tries[td.map[Head(toks)]], Tail(toks))
         ELSE 0

\* the node at the end of the path toks from the root
NodeAt(toks) == WalkIn(nodes, token_dict, 1, toks)

\* the tokens at the positions a .. b - 1 of the text being parsed
Piece(a, b) == SubSeq(tokens, a + 1, b)

\* the prefixes of a token sequence, itself and <<>> among them
Prefixes(toks) == {SubSeq(toks, 1, k) : k \in 0..Len(toks)}

-----------------------------------------------------------------------------
(* C5: the interner assigns each distinct token one id, the ids of the N   *)
(* tokens seen are 0..N-1 in first-seen order, dic_list[id] is the token   *)
(* of that id, len(dic_list) = next_index, and adding a known token        *)
(* changes nothing and returns the id it has.                              *)
C5_InternerInvariant ==
    /\ token_dict.dic_list = seen
    /\ token_dict.next_index = Len(token_dict.dic_list)
    /\ DOMAIN token_dict.map = Range(token_dict.dic_list)
    /\ \A i \in 1..Len(token_dict.dic_list) :
          token_dict.map[token_dict.dic_list[i]] = i - 1
    /\ \A t \in DOMAIN token_dict.map :
          /\ get_or_add_token_dic(token_dict, t) = [td |-> token_dict, id |-> token_dict.map[t]]
          /\ __setitem__(token_dict, t) = token_dict
          /\ add_tokens(token_dict, <<t, t>>) = token_dict

\* the interner holds a token added directly and the tokens of a phrase,
\* the direct one first, and a build went over a token already known
C5_Witness ==
    /\ seen = <<<<"c">>, <<"a">>, <<"b">>>>
    /\ built = <<<<<<"a">>, <<"b">>>>>>

-----------------------------------------------------------------------------
(* C3: the tag map of the terminal node of every phrase inserted is the    *)
(* left-to-right fold of the tag mappings supplied for it: None removes a  *)
(* key, a value sets or overwrites it, other keys keep their value.        *)
C3_TagMergeLaw ==
    \A p \in phrases :
        /\ NodeAt(p) # 0
        /\ nodes[NodeAt(p)].tags = folded[p]

\* the phrase "a" was given tags again and is left with k2 alone, while its
\* prefix and its extension hold other tags
C3_Witness ==
    /\ built = <<<<<<"a">>>>>>
    /\ <<<<"a">>, <<"b">>>> \in phrases
    /\ nodes[NodeAt(<<<<"a">>>>)].tags = [k \in {"k2"} |-> "y"]
    /\ nodes[NodeAt(<<<<"a">>, <<"b">>>>)].tags = [k \in {"k1", "k2"} |-> "x"]
    /\ nodes[1].tags = [k \in {"k1"} |-> "x"]

-----------------------------------------------------------------------------
(* C8: one build_trie call changes the tag map of no node but the one at   *)
(* the end of the phrase's path from the root (the root for an empty       *)
(* phrase): every other node, old or new, prefixes and extensions of the   *)
(* phrase among them, keeps its tags, and no edge, parent or interner id   *)
(* is removed or changed.                                                  *)
InsertionFrame(phrase) ==
    LET target == WalkIn(nodes', token_dict', 1, phrase)
    IN  /\ target # 0
        /\ Len(nodes') >= Len(nodes)
        /\ \A n \in 1..Len(nodes') :
              n # target =>
                 nodes'[n].tags = (IF n <= Len(nodes) THEN nodes[n].tags ELSE <<>>)
        /\ \A n \in 1..Len(nodes) :
              /\ nodes'[n].parent = nodes[n].parent
              /\ \A id \in DOMAIN nodes[n].children_tries :
                    /\ id \in DOMAIN nodes'[n].children_tries
                    /\ nodes'[n].children_tries[id] = nodes[n].children_tries[id]
        /\ \A t \in DOMAIN token_dict.map :
              /\ t \in DOMAIN token_dict'.map
              /\ token_dict'.map[t] = token_dict.map[t]
        /\ SubSeq(token_dict'.dic_list, 1, Len(token_dict.dic_list)) = token_dict.dic_list

\* C8: a build_trie step changes the tags of the phrase's terminal node alone
\* and takes away or changes no edge, parent or interner id
C8_InsertionFrame ==
    [][built' # <<>> => InsertionFrame(built'[1])]_vars

\* "a" was just given tags that differ from those its prefix (the root) and
\* its extension "a b" hold
C8_Witness ==
    /\ built = <<<<<<"a">>>>>>
    /\ NodeAt(<<<<"a">>, <<"b">>>>) # 0
    /\ nodes[NodeAt(<<<<"a">>>>)].tags = [k \in {"k1"} |-> "y"]
    /\ nodes[NodeAt(<<<<"a">>, <<"b">>>>)].tags = [k \in {"k1"} |-> "x"]
    /\ nodes[1].tags = [k \in {"k2"} |-> "x"]

-----------------------------------------------------------------------------
(* C9: the trie is a tree with one node for each distinct non-empty prefix *)
(* of the phrases inserted, and the root; a node's path from the root has  *)
(* its depth for length; inserting a phrase, or a prefix of one, that is   *)
(* there already makes no node and no interner id.                         *)

\* the edges (parent, id) that lead to node n
EdgesTo(n) ==
    {e \in UNION {{<<m, id>> : id \in DOMAIN nodes[m].children_tries} : m \in 1..Len(nodes)} :
        nodes[e[1]].children_tries[e[2]] = n}

\* the tokens on the way from the root to node n, by the parent links
RECURSIVE PathOf(_)
PathOf(n) ==
    IF nodes[n].parent = 0 THEN <<>>
    ELSE LET e == CHOOSE e \in EdgesTo(n) : TRUE
         IN  Append(PathOf(nodes[n].parent), token_dict.dic_list[e[2] + 1])

AllPrefixes == {<<>>} \cup UNION {Prefixes(p) : p \in phrases}

\* C9: the nodes are a tree, one node for each prefix of the phrases inserted,
\* each at the depth of its prefix; inserting again makes nothing new
C9_NoDuplicatedStructure ==
    /\ nodes[1].parent = 0
    /\ EdgesTo(1) = {}
    /\ \A n \in 2..Len(nodes) :
          /\ nodes[n].parent \in 1..(n - 1)
          /\ Cardinality(EdgesTo(n)) = 1
          /\ \A e \in EdgesTo(n) : e[1] = nodes[n].parent
    /\ {PathOf(n) : n \in 1..Len(nodes)} = AllPrefixes
    /\ Len(nodes) = Cardinality(AllPrefixes)
    /\ \A n \in 1..Len(nodes) :
          /\ NodeAt(PathOf(n)) = n
          /\ Len(PathOf(n)) = GetTopFrames(nodes, n) - 1
    /\ token_dict.next_index = Cardinality(UNION {Range(p) : p \in phrases})
    /\ \A p \in AllPrefixes :
          LET r == _add_next_tokens([nodes |-> nodes, token_dict |-> token_dict], 1, p, <<>>)
          IN  r.nodes = nodes /\ r.token_dict = token_dict

\* "a" was inserted last, into a trie that holds "a b" and "b": four nodes
C9_Witness ==
    /\ built = <<<<<<"a">>>>>>
    /\ phrases = {<<<<"a">>>>, <<<<"a">>, <<"b">>>>, <<<<"b">>>>}
    /\ Len(nodes) = 4
    /\ NodeAt(<<<<"a">>, <<"b">>>>) # 0
    /\ nodes[NodeAt(<<<<"a">>, <<"b">>>>)].tags # <<>>

-----------------------------------------------------------------------------
(* C2: the spans parse_words returns are non-empty, in input order, and    *)
(* cut the token sequence into consecutive pieces, every token in exactly  *)
(* one; joined with single spaces they are the lowercased text with its    *)
(* whitespace normalized.                                                  *)

\* the number of tokens ' '.join put in a span
WordsIn(span) == 1 + Cardinality({i \in 1..Len(span) : span[i] = " "})

\* the spans from the i-th on are the tokens from position pos on, cut up
RECURSIVE CutsFrom(_, _)
CutsFrom(i, pos) ==
    IF i > Len(out) THEN pos = Len(tokens)
    ELSE LET k == WordsIn(out[i].span)
         IN  /\ out[i].span # <<>>
             /\ pos + k <= Len(tokens)
             /\ out[i].span = join(Piece(pos, pos + k))
             /\ CutsFrom(i + 1, pos + k)

\* a text lowercased, its runs of whitespace made one space each and the
\* whitespace at its ends dropped
Squeezed(text) ==
    LET kept(i) == \/ text[i] \notin Whitespace
                   \/ /\ i > 1
                      /\ text[i - 1] \notin Whitespace
                      /\ \E j \in (i + 1)..Len(text) : text[j] \notin Whitespace
        marked  == [i \in 1..Len(text) |->
                       IF ~kept(i) THEN "drop"
                       ELSE IF text[i] \in Whitespace THEN " " ELSE LowerChar(text[i])]
    IN  SelectSeq(marked, LAMBDA c : c # "drop")

\* C2: the spans returned are non-empty and cut the token sequence, in order,
\* into consecutive pieces; joined by single spaces they are the normalized text
C2_SpanCoverage ==
    pc = "done" =>
        /\ CutsFrom(1, 0)
        /\ join([i \in 1..Len(out) |-> out[i].span]) = join(tokens)
        /\ \A text \in Texts :
              Normalize(text) = tokens =>
                 join([i \in 1..Len(out) |-> out[i].span]) = Squeezed(text)

\* "b a b" against the trie of "a b": an unmatched token, then a span of two
C2_Witness ==
    /\ pc = "done"
    /\ tokens = <<<<"b">>, <<"a">>, <<"b">>>>
    /\ Len(out) = 2
    /\ out[2].span = <<"a", " ", "b">>
    /\ out[2].tags # <<>>

-----------------------------------------------------------------------------
(* C4: a span emitted by extension (by _get_tries) from the position       *)
(* start_idx is the longest run of tokens from there that is a path of     *)
(* child edges from the root, and its tags are those of the node at the    *)
(* end of that path: not gathered along it, not a shorter prefix's.        *)

\* the length of the longest run of tokens from position s that is a path
\* from the root
LongestRun(s) ==
    CHOOSE k \in 0..(Len(tokens) - s) :
        /\ NodeAt(Piece(s, s + k)) # 0
        /\ \A j \in (k + 1)..(Len(tokens) - s) : NodeAt(Piece(s, s + j)) = 0

\* C4: a span _get_tries emits is the longest run from start_idx that is a
\* path from the root, with the tags of the node at the end of that path
C4_GreedyMaximalMatch ==
    [][(pc = "_get_tries" /\ Len(out') = Len(out) + 1) =>
          LET k    == LongestRun(start_idx)
              path == Piece(start_idx, start_idx + k)
              e    == out'[Len(out')]
          IN  /\ k >= 1
              /\ e.span = join(path)
              /\ e.tags = nodes[NodeAt(path)].tags
              /\ idx = start_idx + k]_vars

\* "a b" against a trie where "a" and "a b" hold different tags: one span,
\* with the tags of "a b"
C4_Witness ==
    /\ pc = "done"
    /\ tokens = <<<<"a">>, <<"b">>>>
    /\ NodeAt(<<<<"a">>>>) # 0
    /\ nodes[NodeAt(<<<<"a">>>>)].tags = [k \in {"k1"} |-> "x"]
    /\ out = <<[span |-> <<"a", " ", "b">>, tags |-> [k \in {"k1"} |-> "y"]]>>

-----------------------------------------------------------------------------
(* C10: a span with a non-empty tag map is, token for token, a phrase that *)
(* was passed to build_trie, and its tags are the tag map the terminal     *)
(* node of that phrase has now: never those of the root, of a prefix or of *)
(* another phrase.                                                         *)
C10_TaggedSpansSound ==
    \A i \in 1..Len(out) :
        out[i].tags # <<>> =>
           \E p \in phrases :
              /\ p # <<>>
              /\ out[i].span = join(p)
              /\ out[i].tags = nodes[NodeAt(p)].tags

\* "a b" parsed while the root, "a", "a b" and "b" hold tags: the span
\* "a b" has those of "a b", which differ from the others'
C10_Witness ==
    /\ pc = "done"
    /\ tokens = <<<<"a">>, <<"b">>>>
    /\ nodes[1].tags = [k \in {"k1"} |-> "x"]
    /\ NodeAt(<<<<"a">>>>) # 0
    /\ NodeAt(<<<<"b">>>>) # 0
    /\ nodes[NodeAt(<<<<"a">>>>)].tags = [k \in {"k1"} |-> "x"]
    /\ nodes[NodeAt(<<<<"b">>>>)].tags = [k \in {"k1"} |-> "x"]
    /\ out = <<[span |-> <<"a", " ", "b">>, tags |-> [k \in {"k1"} |-> "y"]]>>
    /\ prior = <<>>

-----------------------------------------------------------------------------
(* C7: a parse changes neither the interner nor the trie's nodes, edges    *)
(* and tags, also when the text has tokens never inserted; a parse that    *)
(* repeats the one before it, no build_trie between, returns the same.     *)
C7_ParseReadOnly ==
    [][pc' # "idle" =>
          /\ token_dict' = token_dict
          /\ nodes' = nodes
          /\ (pc' = "done" /\ prior # <<>>) => out' = prior[1]]_vars

\* a text with a token the interner never met was parsed twice
C7_Witness ==
    /\ pc = "done"
    /\ prior = <<out>>
    /\ Len(out) = 3
    /\ \E i \in 1..Len(tokens) : tokens[i] \notin DOMAIN token_dict.map
    /\ \E i \in 1..Len(out) : out[i].tags # <<>>

-----------------------------------------------------------------------------
(* C1: after a matched span is emitted because the next token is no child  *)
(* edge of the node reached, matching resumes from the root at that token: *)
(* if it is a child edge of the root, the next span starts there, is the   *)
(* run that extends from the root and has the tags of the node reached; it *)
(* is not a lone token with an empty tag map.                              *)

\* the i-th span is the tokens from position pos on that LongestRun gives,
\* with the tags of the node they lead to
IsRunFromRoot(i, pos) ==
    LET path == Piece(pos, pos + LongestRun(pos))
    IN  /\ out[i].span = join(path)
        /\ out[i].tags = nodes[NodeAt(path)].tags

\* from the i-th span, at position pos, on: a span that follows a matched
\* span and starts at a child edge of the root is a run from the root
RECURSIVE ResumesFrom(_, _)
ResumesFrom(i, pos) ==
    IF i > Len(out) THEN TRUE
    ELSE LET before == Piece(pos - WordsIn(out[i - 1].span), pos)
         IN  /\ (/\ NodeAt(before) # 0
                 /\ out[i - 1].span = join(before)
                 /\ NodeAt(<<tokens[pos + 1]>>) # 0) => IsRunFromRoot(i, pos)
             /\ ResumesFrom(i + 1, pos + WordsIn(out[i].span))

\* C1: in the list returned, a span that follows a matched span and starts at
\* a child edge of the root is the run from the root there, with its node's tags
C1_ResumesAtRoot ==
    (pc = "done" /\ Len(out) >= 2) => ResumesFrom(2, WordsIn(out[1].span))

-----------------------------------------------------------------------------
(* C6: parse_words returns for every trie and every finite text and never  *)
(* raises; a text with no tokens gives the empty list, also when the root  *)
(* holds tags.                                                             *)
C6_ParseNeverRaises ==
    /\ pc # "RecursionError"
    /\ (pc = "done" /\ tokens = <<>>) => out = <<>>

====
